---- MODULE Spec2Model ----
(***************************************************************************)
(* Workflow orchestration and task execution of AI_VOICE_AUTOMATION.       *)
(*                                                                         *)
(* Several state machines share this module, each over its own variables:  *)
(*   Spec       the Celery task engine as the repository drives it:        *)
(*              app/tasks/{video,ai,workflow}_tasks.py (retry handlers,    *)
(*              chain / group / chord compositions) and                    *)
(*              app/tasks/task_monitor.py (cancel_task, retry_failed_task) *)
(*   SpecBatch  the asyncio batch coordinators                             *)
(*              app/services/ingest/batch_ingestion.py (_process_batch)    *)
(*              app/services/ai/transcription.py (batch_transcribe)        *)
(*   SpecRetry  one task under its retry handler                           *)
(*   SpecMon    TaskMonitor.get_task_status                                *)
(*   SpecJobs   the job registry of BatchVideoIngestionService             *)
(*   SpecDelivery  delivery of scheduled publishing tasks to worker nodes  *)
(*   SpecPool   the workflow callbacks and their subtasks in one pool      *)
(*   SpecBulk   bulk_video_processing_workflow                             *)
(*                                                                         *)
(* Task bodies (download, transcription, ...) are opaque operations that   *)
(* either return or raise.  The canvas primitives chain / group / chord,   *)
(* AsyncResult.status, revoke and send_task behave as Celery documents     *)
(* them for a key-value result backend.                                    *)
(***************************************************************************)
EXTENDS Integers, Sequences, FiniteSets, TLC

(***************************************************************************)
(* Bounds of the model                                                     *)
(***************************************************************************)
\* size of the worker pool that executes tasks
Workers == 2
\* number of TaskMonitor calls (cancel_task / retry_failed_task) in one run
MaxCalls == 2
\* number of URLs / audio files handed to one batch
NumItems == 3
\* largest max_concurrent a batch is started with
MaxConc == 2
\* longest time (seconds) one execution of a task body takes
MaxDuration == 1
\* number of tasks whose status a caller of TaskMonitor follows
MonTasks == 2
\* number of calls of start_batch_ingestion in one run
MaxBatches == 3
\* resolution of the wall clock (ticks per second) and the last tick followed
TicksPerSecond == 2
MaxTicks == 5
\* number of worker nodes that consume one queue
NumNodes == 2
\* concurrency of one worker node (pool processes)
Concurrency == 1
\* distance (seconds) between the schedule times a caller chooses from
EtaStep == 60
\* number of raising executions and worker losses in one run
MaxFaults == 3
\* number of processes of the pool that runs the callbacks (--concurrency)
PoolSize == 2
\* number of workflow callbacks followed in one run
NumJobs == 2
\* number of target platforms of a workflow
NumPlatforms == 2
\* number of URLs handed to bulk_video_processing_workflow
NumUrls == 4
\* number of videos the workers can process at the same time
VideoCapacity == 3

(***************************************************************************)
(* Task identities.  One id per task of a submitted workflow; NewIds are   *)
(* the ids send_task hands out for resubmissions.                          *)
(***************************************************************************)
BaseTasks ==
    { "tiktok_to_youtube_shorts_workflow",
      "complete_video_automation_workflow",
      "process_video_with_ai_workflow",
      "download_video_task",
      "extract_audio_task",
      "transcribe_audio_task",
      "analyze_content_sentiment_task",
      "generate_optimized_content",
      "finalize_ai_workflow" }

NewIds == { "new1", "new2", "new3" }

Ids == BaseTasks \cup NewIds

TaskStatus == { "PENDING", "STARTED", "SUCCESS", "FAILURE", "RETRY", "REVOKED" }

Terminal == { "SUCCESS", "FAILURE", "REVOKED" }

Workflows == { "tiktok", "complete", "ai" }

VARIABLES
    wf,          \* the workflow that was submitted ("none" before submission)
    status,      \* AsyncResult(id).status as stored in the result backend
    retries,     \* self.request.retries of the task's current message
    queued,      \* ids with a message waiting in the broker
    running,     \* ids whose body a pool worker is executing
    returning,   \* chord members whose state is stored, on_chord_part_return pending
    revoked,     \* ids the workers hold in their revoked set
    revokeSignal, \* id whose revoke is broadcast in this step ("none" otherwise)
    enq,         \* number of times an id was published (retries excluded)
    chordParts,  \* chord member -> state stashed by its part return ("none" before)
    partOrder,   \* chord members in the order their part returns were processed
    ai_results,  \* the members whose results the chord body was called with, by position
    kindOf,      \* task name of a resubmitted id ("none" while the id is unused)
    origOf,      \* the failed id a resubmitted id was created for
    calls,       \* TaskMonitor calls made so far
    ret,         \* what the TaskMonitor call of this step returned (NoRet otherwise)
    \* ---- batch coordinator ----
    svc,         \* "ingest" | "transcribe" ("none" before a batch is started)
    maxConcurrent, \* the batch's concurrency limit
    bStatus,     \* BatchJob.status
    sem,         \* value of the asyncio.Semaphore
    itemPc,      \* per item coroutine position
    itemOut,     \* per item outcome of its processing
    doneQ,       \* items in order of completion, not yet consumed by as_completed
    results,     \* BatchJob.results / processed_results
    successful_videos,
    failed_videos,
    progress,
    cancelled_by, \* how the _process_batch task was cancelled ("none" if it was not)
    \* ---- one task under its retry handler ----
    rtask,       \* name of the task that was sent ("none" before)
    rstate,      \* "none" | "PENDING" | "running" | "RETRY" | "SUCCESS" | "FAILURE"
    request_retries, \* self.request.retries of the current message
    executions,  \* number of times the body was executed
    countdowns,  \* the countdown of every self.retry call, in order
    failures,    \* class of the exception of every failed execution, in order
    now,         \* clock (seconds)
    eta,         \* earliest time the current message may be executed
    \* ---- TaskMonitor.get_task_status ----
    m_task,      \* monitored id -> name of the task sent under it ("none" if unused)
    m_state,     \* monitored id -> AsyncResult(id).status
    m_result,    \* monitored id -> AsyncResult(id).result (NoValue while there is none)
    snapshot,    \* what the get_task_status call of this step returned
    \* ---- BatchVideoIngestionService.active_jobs ----
    clock,       \* datetime.now(), in ticks of 1/TicksPerSecond second
    active_jobs, \* job id -> the batch registered under it (0 if none)
    started,     \* per call of start_batch_ingestion: the job id it returned
    \* ---- delivery of the messages of one queue ("publishing") ----
    scheduled,   \* schedule_publishing_task has run
    bq,          \* the messages waiting in the broker queue, head first
    d_loc,       \* message -> "none" | "broker" | "timer" | "ready" | "executing" | "gone"
    d_at,        \* message -> the worker nodes that hold its current delivery
    d_eta,       \* message -> eta of its current message
    d_seq,       \* message -> serial number of its last enqueue
    d_retries,   \* message -> retries header (self.request.retries)
    d_raises,    \* message -> executions whose body raised
    d_losses,    \* message -> executions ended by the loss of the worker process
    d_state,     \* message -> state in the result backend
    pool,        \* node -> messages ready for its pool, in order
    d_now,       \* clock (seconds)
    faults,      \* raises and worker losses so far
    \* ---- one worker pool that runs the workflow callbacks and their subtasks ----
    sync_subtasks, \* "unset" | "blocks" | "raises": what result.get() does inside a task
    pq,          \* the messages waiting for the pool, head first
    slots,       \* pool process -> the message it executes (Idle if none)
    j_kind,      \* job -> name of the callback ("none" while the job is unused)
    j_state,     \* job -> "none" | "queued" | "running" | "waiting" | "SUCCESS" | "FAILURE"
    j_phase,     \* job -> number of result.get() calls that returned
    j_out,       \* job -> subtasks the job's get() still waits for
    j_subfail,   \* job -> a subtask the job waits for has raised
    \* ---- bulk_video_processing_workflow ----
    batch_size,  \* the batch_size argument (0 before the task is started)
    b_pc,        \* "none" | "loop" | "sleeping" | "returned"
    b_i,         \* number of URLs the loop has passed
    batches,     \* the batch_urls slices, in the order they were sent
    workflow_jobs, \* the group ids collected so far
    v_state      \* URL -> "none" | "queued" | "processing" | "done"

engineVars == << wf, status, retries, queued, running, returning, revoked,
                 revokeSignal, enq, chordParts, partOrder, ai_results,
                 kindOf, origOf, calls, ret >>

batchVars == << svc, maxConcurrent, bStatus, sem, itemPc, itemOut, doneQ,
                results, successful_videos, failed_videos, progress,
               cancelled_by >>

retryVars == << rtask, rstate, request_retries, executions, countdowns,
                failures, now, eta >>

monVars == << m_task, m_state, m_result, snapshot >>

\* the subsystems added to the engine, the batch coordinator and the retry handler
jobsVars == << clock, active_jobs, started >>

deliveryVars == << scheduled, bq, d_loc, d_at, d_eta, d_seq, d_retries,
                   d_raises, d_losses, d_state, pool, d_now, faults >>

poolVars == << sync_subtasks, pq, slots, j_kind, j_state, j_phase, j_out,
               j_subfail >>

bulkVars == << batch_size, b_pc, b_i, batches, workflow_jobs, v_state >>

extraVars == << monVars, jobsVars, deliveryVars, poolVars, bulkVars >>

\* what an action of one subsystem leaves alone
outsideEngine == << batchVars, retryVars, extraVars >>

outsideBatch == << engineVars, retryVars, extraVars >>

outsideRetry == << engineVars, batchVars, extraVars >>

coreVars == << engineVars, batchVars, retryVars >>

outsideMon == << coreVars, jobsVars, deliveryVars, poolVars, bulkVars >>

outsideJobs == << coreVars, monVars, deliveryVars, poolVars, bulkVars >>

outsideDelivery == << coreVars, monVars, jobsVars, poolVars, bulkVars >>

outsidePool == << coreVars, monVars, jobsVars, deliveryVars, bulkVars >>

outsideBulk == << coreVars, monVars, jobsVars, deliveryVars, poolVars >>

vars == << coreVars, extraVars >>

(***************************************************************************)
(* Static description of the tasks                                         *)
(***************************************************************************)
\* the registered task a message with this id runs
Kind(t) == IF t \in NewIds THEN kindOf[t] ELSE t

\* tasks whose except-branch calls self.retry
RetryingKinds ==
    { "download_video_task", "transcribe_audio_task",
      "tiktok_to_youtube_shorts_workflow",
      "publish_to_youtube_task", "publish_to_tiktok_task",
      "publish_to_twitter_task", "batch_transcribe_task" }

\* max_retries of the task decorator
max_retries(k) ==
    CASE k = "download_video_task" -> 3
      [] k = "transcribe_audio_task" -> 3
      [] k = "tiktok_to_youtube_shorts_workflow" -> 2
      [] k = "publish_to_youtube_task" -> 3
      [] k = "publish_to_tiktok_task" -> 3
      [] k = "publish_to_twitter_task" -> 2
      [] k = "batch_transcribe_task" -> 1
      [] OTHER -> 3

\* the tasks whose execution is followed after workflow w was submitted.
\* tiktok_to_youtube_shorts_workflow hands over to an independent job,
\* complete_video_automation_workflow.delay(...): that job is published there
\* and its execution is the workflow "complete".
TasksOf(w) ==
    CASE w = "tiktok" -> { "tiktok_to_youtube_shorts_workflow" }
      [] w = "complete" ->
            { "complete_video_automation_workflow",
              "download_video_task", "extract_audio_task",
              "transcribe_audio_task", "analyze_content_sentiment_task",
              "generate_optimized_content" }
      [] w = "ai" ->
            { "process_video_with_ai_workflow",
              "transcribe_audio_task", "analyze_content_sentiment_task",
              "finalize_ai_workflow" }
      [] OTHER -> {}

\* the task a caller submits to start the workflow
Root(w) ==
    CASE w = "tiktok" -> "tiktok_to_youtube_shorts_workflow"
      [] w = "complete" -> "complete_video_automation_workflow"
      [] OTHER -> "process_video_with_ai_workflow"

\* tasks the body of t publishes itself right before it returns
Sends(t) ==
    CASE t = "tiktok_to_youtube_shorts_workflow" ->
            { "complete_video_automation_workflow" }
      [] t = "complete_video_automation_workflow" -> { "download_video_task" }
      [] t = "process_video_with_ai_workflow" ->
            { "transcribe_audio_task", "analyze_content_sentiment_task" }
      [] OTHER -> {}

\* faulty variant: the chord header is linked to the first step of the chain as well
ChainNext_skips(t) ==
    CASE t = "download_video_task" ->
            { "extract_audio_task", "transcribe_audio_task",
              "analyze_content_sentiment_task" }
      [] OTHER -> {}

\* chain(download, extract_audio, chord(group(transcribe, sentiment), callback))
ChainNext(t) ==
    CASE t = "download_video_task" -> { "extract_audio_task" }
      [] t = "extract_audio_task" ->
            { "transcribe_audio_task", "analyze_content_sentiment_task" }
      [] OTHER -> {}

\* header of the chord
ai_processing_group == { "transcribe_audio_task", "analyze_content_sentiment_task" }

\* body of the chord
Callback(w) ==
    IF w = "ai" THEN "finalize_ai_workflow" ELSE "generate_optimized_content"

IsChordMember(t) == t \in ai_processing_group

(***************************************************************************)
(* Decisions the code takes                                                *)
(***************************************************************************)
\* faulty variant: the guard compares with <= and allows one retry too many
ShouldRetry_offByOne(k, r) == k \in RetryingKinds /\ r <= max_retries(k)

\* "if self.request.retries < self.max_retries: raise self.retry(...)"
ShouldRetry(k, r) == k \in RetryingKinds /\ r < max_retries(k)

\* faulty variant: the link is applied whatever the outcome of the step
LinkApplies_any(outcome) == TRUE

\* a chain link / callback is applied only when the step returned
LinkApplies(outcome) == outcome = "SUCCESS"

\* the header is complete when every member has stashed its state
ChordReady(parts) == \A m \in ai_processing_group : parts[m] # "none"

\* the body is called with the results unless a member did not succeed
ChordPropagates(parts) == \E m \in ai_processing_group : parts[m] # "SUCCESS"

\* faulty variant: the results are handed over in the order the members finished
JoinResults_completion(order) == order

\* the body is called with the members' results in the order of the header,
\* group([transcribe_audio_task.s(), analyze_content_sentiment_task.s()])
JoinResults(order) ==
    << "transcribe_audio_task", "analyze_content_sentiment_task" >>

\* faulty variant: the status check is missing
RetryRejected_never(st) == FALSE

\* "if result.status != TaskStatus.FAILURE: return {... 'success': False ...}"
RetryRejected(st) == st # "FAILURE"

\* ids a TaskMonitor caller can name: tasks that were published or have a
\* stored state
Known == { t \in Ids : enq[t] > 0 \/ status[t] # "PENDING" }

FreshId == CHOOSE n \in NewIds : kindOf[n] = "none"

NoRet == [ op |-> "none", task |-> "none", success |-> FALSE,
           action |-> "none", new |-> "none" ]

(***************************************************************************)
(* Initial state: nothing submitted, no batch started                      *)
(***************************************************************************)
EngineInit ==
    /\ wf = "none"
    /\ status = [ t \in Ids |-> "PENDING" ]
    /\ retries = [ t \in Ids |-> 0 ]
    /\ queued = {}
    /\ running = {}
    /\ returning = {}
    /\ revoked = {}
    /\ revokeSignal = "none"
    /\ enq = [ t \in Ids |-> 0 ]
    /\ chordParts = [ m \in ai_processing_group |-> "none" ]
    /\ partOrder = << >>
    /\ ai_results = << >>
    /\ kindOf = [ n \in NewIds |-> "none" ]
    /\ origOf = [ n \in NewIds |-> "none" ]
    /\ calls = 0
    /\ ret = NoRet

BatchIdle ==
    /\ svc = "none"
    /\ maxConcurrent = 0
    /\ bStatus = "none"
    /\ sem = 0
    /\ itemPc = [ i \in 1..NumItems |-> "none" ]
    /\ itemOut = [ i \in 1..NumItems |-> "none" ]
    /\ doneQ = << >>
    /\ results = << >>
    /\ successful_videos = 0
    /\ failed_videos = 0
    /\ progress = 0
    /\ cancelled_by = "none"

RetryIdle ==
    /\ rtask = "none"
    /\ rstate = "none"
    /\ request_retries = 0
    /\ executions = 0
    /\ countdowns = << >>
    /\ failures = << >>
    /\ now = 0
    /\ eta = 0

\* ids a caller of TaskMonitor holds
MonIds == 1..MonTasks

\* AsyncResult.result / .info of a task that stored no value
NoValue == [ none |-> "None" ]

\* get_task_status was not called in this step
NoSnapshot == [ op |-> "none" ]

MonIdle ==
    /\ m_task = [ t \in MonIds |-> "none" ]
    /\ m_state = [ t \in MonIds |-> "PENDING" ]
    /\ m_result = [ t \in MonIds |-> NoValue ]
    /\ snapshot = NoSnapshot

Users == { "u1", "u2" }

\* int(datetime.now().timestamp()): whole seconds of the clock
Seconds == 0..(MaxTicks \div TicksPerSecond)

\* f"batch_{user_id}_{int(datetime.now().timestamp())}"
JobIds == Users \X Seconds

JobsInit ==
    /\ clock = 0
    /\ active_jobs = [ j \in JobIds |-> 0 ]
    /\ started = << >>

\* the platforms schedule_publishing_task is called with, one message each
Platforms == << "youtube", "twitter" >>

Msgs == 1..Len(Platforms)

Nodes == 1..NumNodes

DeliveryInit ==
    /\ scheduled = FALSE
    /\ bq = << >>
    /\ d_loc = [ m \in Msgs |-> "none" ]
    /\ d_at = [ m \in Msgs |-> {} ]
    /\ d_eta = [ m \in Msgs |-> 0 ]
    /\ d_seq = [ m \in Msgs |-> 0 ]
    /\ d_retries = [ m \in Msgs |-> 0 ]
    /\ d_raises = [ m \in Msgs |-> 0 ]
    /\ d_losses = [ m \in Msgs |-> 0 ]
    /\ d_state = [ m \in Msgs |-> "PENDING" ]
    /\ pool = [ w \in Nodes |-> << >> ]
    /\ d_now = 0
    /\ faults = 0

Jobs == 1..NumJobs

PoolSlots == 1..PoolSize

\* a pool process without a message
Idle == [ type |-> "idle", job |-> 0 ]

PoolInit ==
    /\ sync_subtasks = "unset"
    /\ pq = << >>
    /\ slots = [ s \in PoolSlots |-> Idle ]
    /\ j_kind = [ j \in Jobs |-> "none" ]
    /\ j_state = [ j \in Jobs |-> "none" ]
    /\ j_phase = [ j \in Jobs |-> 0 ]
    /\ j_out = [ j \in Jobs |-> 0 ]
    /\ j_subfail = [ j \in Jobs |-> FALSE ]

\* video_urls, by position
Urls == 1..NumUrls

BulkInit ==
    /\ batch_size = 0
    /\ b_pc = "none"
    /\ b_i = 0
    /\ batches = << >>
    /\ workflow_jobs = << >>
    /\ v_state = [ u \in Urls |-> "none" ]

Init ==
    /\ EngineInit /\ BatchIdle /\ RetryIdle
    /\ MonIdle /\ JobsInit /\ DeliveryInit /\ PoolInit /\ BulkInit

(***************************************************************************)
(* Task engine                                                             *)
(***************************************************************************)
\* apply_async / delay of a set of signatures
Publish(S) ==
    /\ queued' = queued \cup S
    /\ enq' = [ t \in Ids |-> IF t \in S THEN enq[t] + 1 ELSE enq[t] ]

\* a caller submits one of the workflows
SubmitWorkflow(w) ==
    /\ wf = "none"
    /\ wf' = w
    /\ Publish({ Root(w) })
    /\ UNCHANGED << status, retries, running, returning, revoked, chordParts, kindOf, origOf, calls >>
    /\ ret' = NoRet
    /\ revokeSignal' = "none"
    /\ UNCHANGED << partOrder, ai_results >>
    /\ UNCHANGED outsideEngine

\* a worker receives the message of a revoked id: the task is discarded and
\* marked REVOKED (mark_as_revoked), a chord member still reports its part
WorkerDiscardRevoked(t) ==
    /\ t \in queued
    /\ t \in TasksOf(wf) \cup NewIds
    /\ t \in revoked
    /\ queued' = queued \ { t }
    /\ status' = [ status EXCEPT ![t] = "REVOKED" ]
    /\ returning' = IF IsChordMember(t) THEN returning \cup { t } ELSE returning
    /\ UNCHANGED << wf, retries, running, revoked, enq, chordParts,
                    kindOf, origOf, calls >>
    /\ ret' = NoRet
    /\ revokeSignal' = "none"
    /\ UNCHANGED << partOrder, ai_results >>
    /\ UNCHANGED outsideEngine

\* a free pool worker starts executing the task
WorkerStart(t) ==
    /\ t \in queued
    /\ t \in TasksOf(wf) \cup NewIds
    /\ t \notin revoked
    /\ Cardinality(running) < Workers
    /\ queued' = queued \ { t }
    /\ running' = running \cup { t }
    /\ UNCHANGED << wf, status, retries, returning, revoked, enq,
                    chordParts, kindOf, origOf, calls >>
    /\ ret' = NoRet
    /\ revokeSignal' = "none"
    /\ UNCHANGED << partOrder, ai_results >>
    /\ UNCHANGED outsideEngine

\* what a step that ended with `outcome` publishes next
Links(t, outcome) ==
    IF LinkApplies(outcome) THEN Sends(t) \cup ChainNext(t) ELSE {}

\* the body returns: SUCCESS is stored, the tasks the body sent and the next
\* chain step are published
TaskReturn(t) ==
    /\ t \in running
    /\ running' = running \ { t }
    /\ status' = [ status EXCEPT ![t] = "SUCCESS" ]
    /\ Publish(Links(t, "SUCCESS"))
    /\ returning' = IF IsChordMember(t) THEN returning \cup { t } ELSE returning
    /\ UNCHANGED << wf, retries, revoked, chordParts, kindOf,
                    origOf, calls >>
    /\ ret' = NoRet
    /\ revokeSignal' = "none"
    /\ UNCHANGED << partOrder, ai_results >>
    /\ UNCHANGED outsideEngine

\* the body raises: the except-branch retries while retries < max_retries,
\* otherwise the exception is re-raised and FAILURE is stored
TaskRaise(t) ==
    /\ t \in running
    /\ running' = running \ { t }
    /\ IF ShouldRetry(Kind(t), retries[t])
         THEN /\ status' = [ status EXCEPT ![t] = "RETRY" ]
              /\ retries' = [ retries EXCEPT ![t] = retries[t] + 1 ]
              /\ queued' = queued \cup { t }
              /\ UNCHANGED << returning, enq >>
         ELSE /\ status' = [ status EXCEPT ![t] = "FAILURE" ]
              /\ Publish(Links(t, "FAILURE"))
              /\ returning' = IF IsChordMember(t)
                                THEN returning \cup { t } ELSE returning
              /\ UNCHANGED retries
    /\ UNCHANGED << wf, revoked, chordParts, kindOf, origOf, calls >>
    /\ ret' = NoRet
    /\ revokeSignal' = "none"
    /\ UNCHANGED << partOrder, ai_results >>
    /\ UNCHANGED outsideEngine

\* on_chord_part_return of a member that reached a terminal state: the state
\* is stashed atomically; the part that completes the header either calls the
\* body with the results or, when a member did not succeed, marks the body
\* FAILURE (ChordError) without calling it
ChordPartReturn(t) ==
    /\ t \in returning
    /\ returning' = returning \ { t }
    /\ chordParts' = [ chordParts EXCEPT ![t] = status[t] ]
    /\ partOrder' = Append(partOrder, t)
    /\ IF ChordReady(chordParts')
         THEN IF ChordPropagates(chordParts')
                THEN /\ status' = [ status EXCEPT ![Callback(wf)] = "FAILURE" ]
                     /\ UNCHANGED << queued, enq, ai_results >>
                ELSE /\ Publish({ Callback(wf) })
                     /\ ai_results' = JoinResults(partOrder')
                     /\ UNCHANGED status
         ELSE UNCHANGED << status, queued, enq, ai_results >>
    /\ UNCHANGED << wf, retries, running, revoked, kindOf, origOf, calls >>
    /\ ret' = NoRet
    /\ revokeSignal' = "none"
    /\ UNCHANGED outsideEngine

(***************************************************************************)
(* TaskMonitor                                                             *)
(***************************************************************************)
\* cancel_task: result.revoke(terminate=...) is broadcast whatever the status
\* of the task is; the call returns the action, never the status.  With
\* terminate a worker that is executing the task kills it (killed), unless the
\* signal arrives after the body has ended.
cancel_task(t, terminate, killed) ==
    /\ calls < MaxCalls
    /\ t \in Known
    /\ killed => (terminate /\ t \in running)
    /\ calls' = calls + 1
    /\ revoked' = revoked \cup { t }
    /\ revokeSignal' = t
    /\ IF killed
         THEN /\ running' = running \ { t }
              /\ status' = [ status EXCEPT ![t] = "REVOKED" ]
              /\ returning' = IF IsChordMember(t)
                                THEN returning \cup { t } ELSE returning
         ELSE UNCHANGED << running, status, returning >>
    /\ ret' = [ op |-> "cancel", task |-> t, success |-> TRUE,
                action |-> IF terminate THEN "terminated" ELSE "revoked",
                new |-> "none" ]
    /\ UNCHANGED << wf, retries, queued, enq, chordParts, kindOf, origOf >>
    /\ UNCHANGED << partOrder, ai_results >>
    /\ UNCHANGED outsideEngine

\* retry_failed_task: rejected unless the stored status is FAILURE; otherwise
\* a new task with the original name is sent and its id returned.  The status
\* of the original id is not touched.
retry_failed_task(t) ==
    /\ calls < MaxCalls
    /\ t \in Known
    /\ calls' = calls + 1
    /\ IF RetryRejected(status[t])
         THEN /\ ret' = [ op |-> "retry", task |-> t, success |-> FALSE,
                          action |-> "none", new |-> "none" ]
              /\ UNCHANGED << queued, enq, kindOf, origOf >>
         ELSE /\ kindOf' = [ kindOf EXCEPT ![FreshId] = Kind(t) ]
              /\ origOf' = [ origOf EXCEPT ![FreshId] = t ]
              /\ Publish({ FreshId })
              /\ ret' = [ op |-> "retry", task |-> t, success |-> TRUE,
                          action |-> "none", new |-> FreshId ]
    /\ revokeSignal' = "none"
    /\ UNCHANGED << wf, status, retries, running, returning, revoked,
                    chordParts >>
    /\ UNCHANGED << partOrder, ai_results >>
    /\ UNCHANGED outsideEngine

\* either call raises (broker or backend unreachable): the except-branch
\* returns success False and nothing was sent
monitor_call_fails(op, t) ==
    /\ calls < MaxCalls
    /\ t \in Known
    /\ calls' = calls + 1
    /\ ret' = [ op |-> op, task |-> t, success |-> FALSE,
                action |-> IF op = "cancel" THEN "cancel_failed" ELSE "none",
                new |-> "none" ]
    /\ revokeSignal' = "none"
    /\ UNCHANGED << wf, status, retries, queued, running, returning, revoked,
                    enq, chordParts, kindOf, origOf >>
    /\ UNCHANGED << partOrder, ai_results >>
    /\ UNCHANGED outsideEngine

\* result.children of a task: the results of what its body sent itself,
\* stored with the state of the task.  The first step of a chain is one
\* AsyncResult, the header of a chord one GroupResult; the later steps of a
\* chain are children of the step before them, not of the workflow task.
children(t) ==
    IF status[t] = "SUCCESS" /\ Sends(t) # {} THEN { Sends(t) } ELSE {}

\* child.successful(); a GroupResult is successful when every member is
successful(child) == \A m \in child : status[m] = "SUCCESS"

\* get_workflow_status: overall_status is the status of the workflow task,
\* progress the share of its children that are successful (0 without children)
get_workflow_status(workflow_id) ==
    LET total_steps == Cardinality(children(workflow_id))
        completed_steps ==
            Cardinality({ child \in children(workflow_id) : successful(child) })
    IN  [ overall_status |-> status[workflow_id],
          progress |-> IF total_steps = 0 THEN 0
                       ELSE (completed_steps * 100) \div total_steps ]

Next ==
    \/ \E w \in Workflows : SubmitWorkflow(w)
    \/ \E t \in Ids : WorkerDiscardRevoked(t)
    \/ \E t \in Ids : WorkerStart(t)
    \/ \E t \in Ids : TaskReturn(t)
    \/ \E t \in Ids : TaskRaise(t)
    \/ \E t \in Ids : ChordPartReturn(t)
    \/ \E t \in Ids, terminate \in BOOLEAN, killed \in BOOLEAN :
            cancel_task(t, terminate, killed)
    \/ \E t \in Ids : retry_failed_task(t)
    \/ \E t \in Ids, op \in { "cancel", "retry" } : monitor_call_fails(op, t)

Spec == Init /\ [][Next]_vars

TypeOK ==
    /\ wf \in Workflows \cup { "none" }
    /\ status \in [ Ids -> TaskStatus ]
    /\ retries \in [ Ids -> 0..3 ]
    /\ queued \subseteq Ids
    /\ running \subseteq Ids
    /\ returning \subseteq ai_processing_group
    /\ revoked \subseteq Ids
    /\ enq \in [ Ids -> 0..1 ]
    /\ calls \in 0..MaxCalls

(***************************************************************************)
(* Batch coordinators (asyncio, one event loop: a step runs from one await *)
(* to the next)                                                            *)
(***************************************************************************)
Items == 1..NumItems

\* outcomes of the awaited operation (ingest_video / transcribe_audio)
Outcomes == { "success", "unsuccessful", "exception" }

InFlight == { i \in Items : itemPc[i] = "inflight" }

\* faulty variant: the coroutine enters without waiting for the semaphore
CanAcquire_unguarded(v) == TRUE

\* "async with semaphore": the coroutine enters only while the value is > 0
CanAcquire(v) == v > 0

\* faulty variant: the except-branch is missing, the exception ends the item task
ItemResult_uncaught(out) ==
    CASE out = "success" -> "success"
      [] out = "unsuccessful" -> "failure"
      [] OTHER -> "raised"

\* what process_single_url / transcribe_single hands back for an outcome:
\* "except Exception" turns a raised exception into a failure record
ItemResult(out) ==
    CASE out = "success" -> "success"
      [] out = "unsuccessful" -> "failure"
      [] OTHER -> "failure"

\* faulty variant: a result is counted in both counters
CountDelta_both(ok) == << 1, 1 >>

\* faulty variant: the two branches are exchanged
CountDelta_swapped(ok) == IF ok THEN << 0, 1 >> ELSE << 1, 0 >>

\* "if result.get('success', False): successful_videos += 1 else: failed_videos += 1"
CountDelta(ok) == IF ok THEN << 1, 0 >> ELSE << 0, 1 >>

\* faulty variant: the loop ends after the first result
LoopExhausted_early(yielded) == yielded >= 1

\* "for task in asyncio.as_completed(tasks)" ends when every task was yielded
LoopExhausted(yielded) == yielded = NumItems

\* faulty variant: the percentage of the items still to be processed
Percent_remaining(processed, total) == ((total - processed) * 100) \div total

\* "int((processed / batch_job.total_videos) * 100)"
Percent(processed, total) == (processed * 100) \div total

\* start_batch_ingestion: the job is registered PENDING and _process_batch is
\* scheduled as a background task
start_batch_ingestion(n) ==
    /\ bStatus = "none"
    /\ svc' = "ingest"
    /\ maxConcurrent' = n
    /\ bStatus' = "pending"
    /\ UNCHANGED << sem, itemPc, itemOut, doneQ, results, successful_videos,
                    failed_videos, progress >>
    /\ UNCHANGED cancelled_by
    /\ UNCHANGED outsideBatch

\* _process_batch up to its first await: RUNNING, the semaphore is created and
\* one task per URL is created
process_batch_begin ==
    /\ svc = "ingest"
    /\ bStatus = "pending"
    /\ cancelled_by = "none"
    /\ bStatus' = "running"
    /\ sem' = maxConcurrent
    /\ itemPc' = [ i \in Items |-> "waiting" ]
    /\ UNCHANGED << svc, maxConcurrent, itemOut, doneQ, results,
                    successful_videos, failed_videos, progress >>
    /\ UNCHANGED cancelled_by
    /\ UNCHANGED outsideBatch

\* batch_transcribe up to "await asyncio.gather(*tasks, ...)"
batch_transcribe(n) ==
    /\ bStatus = "none"
    /\ svc' = "transcribe"
    /\ maxConcurrent' = n
    /\ bStatus' = "running"
    /\ sem' = n
    /\ itemPc' = [ i \in Items |-> "waiting" ]
    /\ UNCHANGED << itemOut, doneQ, results, successful_videos, failed_videos,
                    progress >>
    /\ UNCHANGED cancelled_by
    /\ UNCHANGED outsideBatch

\* an item task (asyncio.create_task) enters "async with semaphore" and starts
\* the operation; it is a task of its own and does not look at the batch status
item_acquire(i) ==
    /\ itemPc[i] = "waiting"
    /\ CanAcquire(sem)
    /\ sem' = sem - 1
    /\ itemPc' = [ itemPc EXCEPT ![i] = "inflight" ]
    /\ UNCHANGED << svc, maxConcurrent, bStatus, itemOut, doneQ, results,
                    successful_videos, failed_videos, progress >>
    /\ UNCHANGED cancelled_by
    /\ UNCHANGED outsideBatch

\* the operation of item i ends with outcome out: the result (or the failure
\* record of the except-branch) is returned and the semaphore released
item_finish(i, out) ==
    /\ itemPc[i] = "inflight"
    /\ svc = "transcribe" => out # "unsuccessful"
    /\ itemPc' = [ itemPc EXCEPT ![i] = "done" ]
    /\ itemOut' = [ itemOut EXCEPT ![i] = ItemResult(out) ]
    /\ sem' = sem + 1
    /\ doneQ' = Append(doneQ, i)
    /\ UNCHANGED << svc, maxConcurrent, bStatus, results, successful_videos,
                    failed_videos, progress >>
    /\ UNCHANGED cancelled_by
    /\ UNCHANGED outsideBatch

\* one iteration of "for task in asyncio.as_completed(tasks)": the next
\* finished task is awaited; its result is appended and counted.  A task that
\* ended with an exception re-raises here and the batch is marked FAILED.
as_completed_step ==
    /\ svc = "ingest"
    /\ bStatus = "running"
    /\ doneQ # << >>
    /\ LET i == Head(doneQ)
           ok == itemOut[i] = "success"
           delta == CountDelta(ok)
           processed == successful_videos + delta[1] + failed_videos + delta[2]
       IN  /\ doneQ' = Tail(doneQ)
           /\ IF itemOut[i] = "raised"
                THEN /\ bStatus' = "failed"
                     /\ UNCHANGED << results, successful_videos, failed_videos,
                                     progress >>
                ELSE /\ results' = Append(results,
                                      [ url_index |-> i, success |-> ok ])
                     /\ successful_videos' = successful_videos + delta[1]
                     /\ failed_videos' = failed_videos + delta[2]
                     /\ progress' = Percent(processed, NumItems)
                     /\ UNCHANGED bStatus
    /\ UNCHANGED << svc, maxConcurrent, sem, itemPc, itemOut >>
    /\ UNCHANGED cancelled_by
    /\ UNCHANGED outsideBatch

\* the loop over as_completed is exhausted: COMPLETED
process_batch_complete ==
    /\ svc = "ingest"
    /\ bStatus = "running"
    /\ LoopExhausted(Len(results))
    /\ bStatus' = "completed"
    /\ UNCHANGED << svc, maxConcurrent, sem, itemPc, itemOut, doneQ, results,
                    successful_videos, failed_videos, progress >>
    /\ UNCHANGED cancelled_by
    /\ UNCHANGED outsideBatch

\* gather(..., return_exceptions=True) returns once every coroutine ended; the
\* results are in input order, an exception object becomes a failure record
gather_return ==
    /\ svc = "transcribe"
    /\ bStatus = "running"
    /\ \A i \in Items : itemPc[i] = "done"
    /\ results' = [ i \in Items |->
                      [ url_index |-> i, success |-> itemOut[i] = "success" ] ]
    /\ doneQ' = << >>
    /\ bStatus' = "completed"
    /\ UNCHANGED << svc, maxConcurrent, sem, itemPc, itemOut,
                    successful_videos, failed_videos, progress >>
    /\ UNCHANGED cancelled_by
    /\ UNCHANGED outsideBatch

NextBatch ==
    \/ \E n \in 1..MaxConc : start_batch_ingestion(n)
    \/ process_batch_begin
    \/ \E n \in 1..MaxConc : batch_transcribe(n)
    \/ \E i \in Items : item_acquire(i)
    \/ \E i \in Items, out \in Outcomes : item_finish(i, out)
    \/ as_completed_step
    \/ process_batch_complete
    \/ gather_return

SpecBatch == Init /\ [][NextBatch]_vars

\* the event loop runs every coroutine that is ready, and every awaited
\* operation ends
FairSpecBatch == SpecBatch /\ WF_vars(NextBatch)

\* Task.cancel() on the _process_batch task.  While it waits in the
\* as_completed loop the CancelledError handler marks the job CANCELLED; a task
\* cancelled before its first step never runs and the job stays PENDING.  The
\* item tasks are tasks of their own and are not cancelled.
cancel_process_batch ==
    /\ svc = "ingest"
    /\ bStatus \in { "pending", "running" }
    /\ cancelled_by = "none"
    /\ cancelled_by' = "task_cancel"
    /\ bStatus' = IF bStatus = "running" THEN "cancelled" ELSE bStatus
    /\ UNCHANGED << svc, maxConcurrent, sem, itemPc, itemOut, doneQ, results,
                    successful_videos, failed_videos, progress >>
    /\ UNCHANGED outsideBatch

\* the event loop is shut down: every task still pending is cancelled, the
\* _process_batch task and the item tasks alike.  CancelledError is not an
\* Exception, so the except-branch of an item does not catch it.
loop_shutdown ==
    /\ svc = "ingest"
    /\ bStatus \in { "pending", "running" }
    /\ cancelled_by = "none"
    /\ cancelled_by' = "loop_shutdown"
    /\ bStatus' = IF bStatus = "running" THEN "cancelled" ELSE bStatus
    /\ itemPc' = [ i \in Items |->
                     IF itemPc[i] \in { "waiting", "inflight" }
                       THEN "cancelled" ELSE itemPc[i] ]
    /\ sem' = sem + Cardinality(InFlight)
    /\ UNCHANGED << svc, maxConcurrent, itemOut, doneQ, results,
                    successful_videos, failed_videos, progress >>
    /\ UNCHANGED outsideBatch

NextBatchCancel ==
    \/ \E n \in 1..MaxConc : start_batch_ingestion(n)
    \/ process_batch_begin
    \/ \E n \in 1..MaxConc : batch_transcribe(n)
    \/ \E i \in Items : item_acquire(i)
    \/ \E i \in Items, out \in Outcomes : item_finish(i, out)
    \/ as_completed_step
    \/ process_batch_complete
    \/ gather_return
    \/ cancel_process_batch
    \/ loop_shutdown

SpecBatchCancel == Init /\ [][NextBatchCancel]_vars

BatchTypeOK ==
    /\ svc \in { "none", "ingest", "transcribe" }
    /\ bStatus \in { "none", "pending", "running", "completed", "failed", "cancelled" }
    /\ sem \in 0..MaxConc
    /\ progress \in 0..100

(***************************************************************************)
(* One task under its retry handler, with time.  A message sent by          *)
(* self.retry(countdown=c) carries eta = now + c and is executed no earlier. *)
(***************************************************************************)
\* the tasks that are followed: the ones with a retry handler and two whose
\* except-branch only re-raises
RetryTasks ==
    RetryingKinds \cup { "extract_audio_task", "generate_optimized_content" }

\* what the external operation reports with its exception; the handlers
\* catch Exception and never look at it
FailureClasses == { "transient", "permanent" }

Durations == 0..MaxDuration

\* the factor in front of 2 ** self.request.retries
countdown_base(k) ==
    CASE k = "download_video_task" -> 60
      [] k = "transcribe_audio_task" -> 60
      [] k = "tiktok_to_youtube_shorts_workflow" -> 60
      [] k = "publish_to_youtube_task" -> 120
      [] k = "publish_to_tiktok_task" -> 90
      [] k = "publish_to_twitter_task" -> 45
      [] k = "batch_transcribe_task" -> 120
      [] OTHER -> 0

RECURSIVE Pow2(_)
Pow2(n) == IF n = 0 THEN 1 ELSE 2 * Pow2(n - 1)

\* faulty variant: the delay grows linearly
countdown_linear(k, r) == countdown_base(k) * (r + 1)

\* "countdown = 120 * (2 ** self.request.retries)"
countdown(k, r) == countdown_base(k) * Pow2(r)

\* task.delay(...) / apply_async()
apply_async(k) ==
    /\ rstate = "none"
    /\ rtask' = k
    /\ rstate' = "PENDING"
    /\ UNCHANGED << request_retries, executions, countdowns, failures, now, eta >>
    /\ UNCHANGED outsideRetry

\* the worker holds a message with an eta until the eta is reached
time_passes ==
    /\ rstate \in { "PENDING", "RETRY" }
    /\ now < eta
    /\ now' = eta
    /\ UNCHANGED << rtask, rstate, request_retries, executions, countdowns,
                    failures, eta >>
    /\ UNCHANGED outsideRetry

\* a worker executes the message
worker_executes ==
    /\ rstate \in { "PENDING", "RETRY" }
    /\ now >= eta
    /\ rstate' = "running"
    /\ executions' = executions + 1
    /\ UNCHANGED << rtask, request_retries, countdowns, failures, now, eta >>
    /\ UNCHANGED outsideRetry

\* the body returns after d seconds
body_returns(d) ==
    /\ rstate = "running"
    /\ rstate' = "SUCCESS"
    /\ now' = now + d
    /\ UNCHANGED << rtask, request_retries, executions, countdowns, failures, eta >>
    /\ UNCHANGED outsideRetry

\* the body raises an exception of class fc after d seconds: "except Exception"
\* retries while self.request.retries < self.max_retries, whatever was raised,
\* and re-raises otherwise
body_raises(fc, d) ==
    /\ rstate = "running"
    /\ now' = now + d
    /\ failures' = Append(failures, fc)
    /\ IF ShouldRetry(rtask, request_retries)
         THEN /\ rstate' = "RETRY"
              /\ countdowns' = Append(countdowns, countdown(rtask, request_retries))
              /\ eta' = now' + countdown(rtask, request_retries)
              /\ request_retries' = request_retries + 1
         ELSE /\ rstate' = "FAILURE"
              /\ UNCHANGED << countdowns, eta, request_retries >>
    /\ UNCHANGED << rtask, executions >>
    /\ UNCHANGED outsideRetry

NextRetry ==
    \/ \E k \in RetryTasks : apply_async(k)
    \/ time_passes
    \/ worker_executes
    \/ \E d \in Durations : body_returns(d)
    \/ \E fc \in FailureClasses, d \in Durations : body_raises(fc, d)

SpecRetry == Init /\ [][NextRetry]_vars

(***************************************************************************)
(* TaskMonitor.get_task_status over tasks that send no subtasks.  The      *)
(* result backend is reachable; AsyncResult.info is AsyncResult.result.    *)
(***************************************************************************)
MonitoredTasks ==
    { "debug_task", "health_check_task", "workflow_status_monitor",
      "cleanup_expired_files" }

\* the dictionaries the body of task k can return
Returns(k) ==
    CASE k = "debug_task" ->
           { [ status |-> "debug_task_completed", worker |-> "worker@host" ] }
      [] k = "health_check_task" ->
           { [ status |-> "healthy", timestamp |-> "2025-09-30T00:00:00Z",
               worker_id |-> "worker-1" ],
             [ status |-> "unhealthy", error |-> "str(exc)",
               timestamp |-> "2025-09-30T00:00:00Z" ] }
      [] k = "workflow_status_monitor" ->
           { [ workflow_id |-> "workflow_job_id", user_id |-> "user_id",
               status |-> "monitoring", progress |-> "0%",
               current_step |-> "initialization",
               estimated_completion |-> "None" ] }
      [] OTHER ->
           { [ success |-> "True", files_cleaned |-> "0", space_freed |-> "0" ] }

\* tasks whose except-branch re-raises
Raising == { "workflow_status_monitor", "cleanup_expired_files" }

\* what the backend stores for a task that raised
ExceptionValue == [ exception |-> "exc" ]

\* "if hasattr(result, 'info') and result.info: if isinstance(result.info, dict)"
InfoIsDict(v) == v # NoValue /\ v # ExceptionValue

\* dict.update: the keys of info replace those of d
DictUpdate(d, info) ==
    [ k \in DOMAIN d \cup DOMAIN info |-> IF k \in DOMAIN info THEN info[k] ELSE d[k] ]

\* the dictionary get_task_status builds before the info is merged
status_info(t) ==
    [ task_id |-> t,
      status |-> m_state[t],
      result |-> CASE m_state[t] = "SUCCESS" -> m_result[t]
                   [] m_state[t] = "FAILURE" -> [ str |-> "str(exc)" ]
                   [] OTHER -> NoValue,
      traceback |-> IF m_state[t] = "FAILURE" THEN "traceback" ELSE "None",
      children |-> << >>,
      date_done |-> IF m_state[t] = "SUCCESS" THEN "date_done" ELSE "None",
      task_name |-> "None",
      args |-> "None",
      kwargs |-> "None",
      worker |-> "None",
      retries |-> 0,
      eta |-> "None" ]

\* task.delay(): the task is sent under the next unused id
delay(k) ==
    /\ \E t \in MonIds :
          /\ m_task[t] = "none"
          /\ \A u \in MonIds : u < t => m_task[u] # "none"
          /\ m_task' = [ m_task EXCEPT ![t] = k ]
    /\ snapshot' = NoSnapshot
    /\ UNCHANGED << m_state, m_result >>
    /\ UNCHANGED outsideMon

\* the body of task t returns value v and the worker stores SUCCESS
task_succeeds(t, v) ==
    /\ m_task[t] # "none"
    /\ m_state[t] = "PENDING"
    /\ v \in Returns(m_task[t])
    /\ m_state' = [ m_state EXCEPT ![t] = "SUCCESS" ]
    /\ m_result' = [ m_result EXCEPT ![t] = v ]
    /\ snapshot' = NoSnapshot
    /\ UNCHANGED m_task
    /\ UNCHANGED outsideMon

\* the body of task t raises and the worker stores FAILURE
task_fails(t) ==
    /\ m_task[t] \in Raising
    /\ m_state[t] = "PENDING"
    /\ m_state' = [ m_state EXCEPT ![t] = "FAILURE" ]
    /\ m_result' = [ m_result EXCEPT ![t] = ExceptionValue ]
    /\ snapshot' = NoSnapshot
    /\ UNCHANGED m_task
    /\ UNCHANGED outsideMon

\* TaskMonitor.get_task_status(task_id)
get_task_status(task_id) ==
    /\ snapshot' =
          [ op |-> "get_task_status",
            asked |-> task_id,
            info |-> IF InfoIsDict(m_result[task_id])
                     THEN DictUpdate(status_info(task_id), m_result[task_id])
                     ELSE status_info(task_id) ]
    /\ UNCHANGED << m_task, m_state, m_result >>
    /\ UNCHANGED outsideMon

AllReturns == UNION { Returns(k) : k \in MonitoredTasks }

NextMon ==
    \/ \E k \in MonitoredTasks : delay(k)
    \/ \E t \in MonIds, v \in AllReturns : task_succeeds(t, v)
    \/ \E t \in MonIds : task_fails(t)
    \/ \E t \in MonIds : get_task_status(t)

SpecMon == Init /\ [][NextMon]_vars

(***************************************************************************)
(* The registry of batch jobs, BatchVideoIngestionService.active_jobs      *)
(***************************************************************************)
\* job_id = f"batch_{user_id}_{int(datetime.now().timestamp())}"
job_id_of(user_id, t) == << user_id, t \div TicksPerSecond >>

\* the wall clock advances
clock_tick ==
    /\ clock < MaxTicks
    /\ clock' = clock + 1
    /\ UNCHANGED << active_jobs, started >>
    /\ UNCHANGED outsideJobs

\* start_batch_ingestion(urls, user_id): the new BatchJob (the n-th one
\* created) is stored under its job id and the id is returned
register_batch(user_id) ==
    /\ Len(started) < MaxBatches
    /\ LET job_id == job_id_of(user_id, clock)
           n == Len(started) + 1
       IN /\ active_jobs' = [ active_jobs EXCEPT ![job_id] = n ]
          /\ started' = Append(started, job_id)
    /\ UNCHANGED clock
    /\ UNCHANGED outsideJobs

\* get_batch_status(job_id) / get_batch_results(job_id): the batch whose
\* record is returned (0 for None)
get_batch_status(job_id) == active_jobs[job_id]

NextJobs ==
    \/ clock_tick
    \/ \E u \in Users : register_batch(u)

SpecJobs == Init /\ [][NextJobs]_vars

(***************************************************************************)
(* Delivery of the messages of the queue "publishing" to worker nodes.     *)
(* schedule_publishing_task sends one publishing task per platform with    *)
(* an eta; no priority is passed anywhere, so all messages have the same   *)
(* priority.  The broker is a FIFO list that hands each message to one     *)
(* consumer; a worker node holds a message with a future eta in its timer. *)
(***************************************************************************)
\* faulty variant: a message is acknowledged when its execution starts
task_acks_early == FALSE

\* celery_app.conf: task_acks_late=True
task_acks_late == TRUE

\* celery_app.conf: task_reject_on_worker_lost=True
task_reject_on_worker_lost == TRUE

\* celery_app.conf: worker_prefetch_multiplier=1
worker_prefetch_multiplier == 1

\* the task schedule_publishing_task sends for a platform
task_of(m) ==
    CASE Platforms[m] = "youtube" -> "publish_to_youtube_task"
      [] Platforms[m] = "tiktok" -> "publish_to_tiktok_task"
      [] OTHER -> "publish_to_twitter_task"

\* publishing_schedule.get(platform) is None
NoSchedule == 0 - 1

\* the schedule times of publishing_schedule (0 is not in the future)
ScheduleTimes == { NoSchedule } \cup { i * EtaStep : i \in 0..2 }

\* faulty variant: the redelivered message counts as one more retry
RetriesAfterLoss_counted(r) == r + 1

\* the requeued message is the message that was delivered, headers included
RetriesAfterLoss(r) == r

\* messages delivered to node w and not acknowledged
Unacked(w) ==
    { m \in Msgs : /\ w \in d_at[m]
                   /\ d_loc[m] \in { "timer", "ready", "executing" }
                   /\ (task_acks_late \/ d_loc[m] # "executing") }

\* the prefetch limit of node w; every message held for its eta raises it by one
PrefetchLimit(w) ==
    worker_prefetch_multiplier * Concurrency
      + Cardinality({ m \in Msgs : w \in d_at[m] /\ d_loc[m] = "timer" })

CanReceive(w) == Cardinality(Unacked(w)) < PrefetchLimit(w)

Executing(w) == { m \in Msgs : w \in d_at[m] /\ d_loc[m] = "executing" }

NextSeq == 1 + Cardinality({ m \in Msgs : d_seq[m] > 0 }) + faults

\* schedule_publishing_task(video_id, platforms, publishing_schedule, ...):
\* for each platform with a schedule time, apply_async(eta=schedule time)
schedule_publishing_task(publishing_schedule) ==
    /\ ~scheduled
    /\ scheduled' = TRUE
    /\ LET Has(m) == publishing_schedule[m] # NoSchedule
           sent == SelectSeq([ i \in Msgs |-> i ], Has)
           Pos(m) == CHOOSE i \in 1..Len(sent) : sent[i] = m
       IN /\ bq' = bq \o sent
          /\ d_loc' = [ m \in Msgs |-> IF Has(m) THEN "broker" ELSE "none" ]
          /\ d_eta' = [ m \in Msgs |-> IF Has(m) THEN publishing_schedule[m] ELSE 0 ]
          /\ d_seq' = [ m \in Msgs |-> IF Has(m) THEN Pos(m) ELSE 0 ]
    /\ UNCHANGED << d_at, d_retries, d_raises, d_losses, d_state, pool, d_now, faults >>
    /\ UNCHANGED outsideDelivery

\* the broker hands the message at the head of the queue to node w
deliver(w) ==
    /\ bq # << >>
    /\ CanReceive(w)
    /\ LET m == Head(bq)
       IN /\ bq' = Tail(bq)
          /\ d_at' = [ d_at EXCEPT ![m] = @ \cup { w } ]
          /\ IF d_eta[m] > d_now
               THEN /\ d_loc' = [ d_loc EXCEPT ![m] = "timer" ]
                    /\ UNCHANGED pool
               ELSE /\ d_loc' = [ d_loc EXCEPT ![m] = "ready" ]
                    /\ pool' = [ pool EXCEPT ![w] = Append(@, m) ]
    /\ UNCHANGED << scheduled, d_eta, d_seq, d_retries, d_raises, d_losses,
                    d_state, d_now, faults >>
    /\ UNCHANGED outsideDelivery

\* the eta of a message held by node w is reached: it is handed to the pool
timer_fires(m) ==
    /\ d_loc[m] = "timer"
    /\ d_now >= d_eta[m]
    /\ \E w \in d_at[m] :
          /\ \A o \in Msgs :
                (w \in d_at[o] /\ d_loc[o] = "timer") => d_eta[m] <= d_eta[o]
          /\ pool' = [ pool EXCEPT ![w] = Append(@, m) ]
    /\ d_loc' = [ d_loc EXCEPT ![m] = "ready" ]
    /\ UNCHANGED << scheduled, bq, d_at, d_eta, d_seq, d_retries, d_raises,
                    d_losses, d_state, d_now, faults >>
    /\ UNCHANGED outsideDelivery

\* a free pool process of node w starts the next ready message
pool_starts(w) ==
    /\ pool[w] # << >>
    /\ Cardinality(Executing(w)) < Concurrency
    /\ d_loc' = [ d_loc EXCEPT ![Head(pool[w])] = "executing" ]
    /\ pool' = [ pool EXCEPT ![w] = Tail(@) ]
    /\ UNCHANGED << scheduled, bq, d_at, d_eta, d_seq, d_retries, d_raises,
                    d_losses, d_state, d_now, faults >>
    /\ UNCHANGED outsideDelivery

\* the body returns: SUCCESS is stored and the message acknowledged
publish_returns(m) ==
    /\ d_loc[m] = "executing"
    /\ d_loc' = [ d_loc EXCEPT ![m] = "gone" ]
    /\ d_at' = [ d_at EXCEPT ![m] = {} ]
    /\ d_state' = [ d_state EXCEPT ![m] = "SUCCESS" ]
    /\ UNCHANGED << scheduled, bq, d_eta, d_seq, d_retries, d_raises, d_losses,
                    pool, d_now, faults >>
    /\ UNCHANGED outsideDelivery

\* the body raises: the except-branch retries with a countdown or re-raises
publish_raises(m) ==
    /\ d_loc[m] = "executing"
    /\ faults < MaxFaults
    /\ faults' = faults + 1
    /\ d_raises' = [ d_raises EXCEPT ![m] = @ + 1 ]
    /\ d_at' = [ d_at EXCEPT ![m] = {} ]
    /\ IF ShouldRetry(task_of(m), d_retries[m])
         THEN /\ d_retries' = [ d_retries EXCEPT ![m] = @ + 1 ]
              /\ d_eta' = [ d_eta EXCEPT ![m] = d_now + countdown(task_of(m), d_retries[m]) ]
              /\ d_seq' = [ d_seq EXCEPT ![m] = NextSeq ]
              /\ d_loc' = [ d_loc EXCEPT ![m] = "broker" ]
              /\ bq' = Append(bq, m)
              /\ d_state' = [ d_state EXCEPT ![m] = "RETRY" ]
         ELSE /\ d_loc' = [ d_loc EXCEPT ![m] = "gone" ]
              /\ d_state' = [ d_state EXCEPT ![m] = "FAILURE" ]
              /\ UNCHANGED << d_retries, d_eta, d_seq, bq >>
    /\ UNCHANGED << scheduled, d_losses, pool, d_now >>
    /\ UNCHANGED outsideDelivery

\* the pool process executing m is lost (WorkerLostError): with acks_late
\* and reject_on_worker_lost the message is rejected with requeue, else it
\* was or is acknowledged and FAILURE is stored
worker_lost(m) ==
    /\ d_loc[m] = "executing"
    /\ faults < MaxFaults
    /\ faults' = faults + 1
    /\ d_losses' = [ d_losses EXCEPT ![m] = @ + 1 ]
    /\ d_at' = [ d_at EXCEPT ![m] = {} ]
    /\ IF task_acks_late /\ task_reject_on_worker_lost
         THEN /\ bq' = << m >> \o bq
              /\ d_loc' = [ d_loc EXCEPT ![m] = "broker" ]
              /\ d_retries' = [ d_retries EXCEPT ![m] = RetriesAfterLoss(@) ]
              /\ UNCHANGED d_state
         ELSE /\ d_loc' = [ d_loc EXCEPT ![m] = "gone" ]
              /\ d_state' = [ d_state EXCEPT ![m] = "FAILURE" ]
              /\ UNCHANGED << bq, d_retries >>
    /\ UNCHANGED << scheduled, d_eta, d_seq, d_raises, pool, d_now >>
    /\ UNCHANGED outsideDelivery

\* the etas that lie ahead
PendingEtas ==
    { d_eta[m] : m \in { o \in Msgs : d_loc[o] \in { "broker", "timer" }
                                       /\ d_eta[o] > d_now } }

\* time passes until the next eta
d_time_passes ==
    /\ PendingEtas # {}
    /\ d_now' = CHOOSE t \in PendingEtas : \A u \in PendingEtas : t <= u
    /\ UNCHANGED << scheduled, bq, d_loc, d_at, d_eta, d_seq, d_retries,
                    d_raises, d_losses, d_state, pool, faults >>
    /\ UNCHANGED outsideDelivery

NextDelivery ==
    \/ \E s \in [ Msgs -> ScheduleTimes ] : schedule_publishing_task(s)
    \/ \E w \in Nodes : deliver(w)
    \/ \E m \in Msgs : timer_fires(m)
    \/ \E w \in Nodes : pool_starts(w)
    \/ \E m \in Msgs : publish_returns(m)
    \/ \E m \in Msgs : publish_raises(m)
    \/ \E m \in Msgs : worker_lost(m)
    \/ d_time_passes

SpecDelivery == Init /\ [][NextDelivery]_vars

(***************************************************************************)
(* One worker pool that runs the workflow callbacks and the subtasks they  *)
(* send and wait for with result.get().  Whether get() blocks inside a     *)
(* task or raises RuntimeError depends on the Celery release and the pool  *)
(* implementation the worker is started with; both are followed.           *)
(***************************************************************************)
PoolCallbacks ==
    { "generate_optimized_content", "publish_generated_content",
      "finalize_ai_workflow" }

\* the callbacks a chord calls (publish_generated_content is sent by
\* generate_optimized_content)
ChordCallbacks == { "generate_optimized_content", "finalize_ai_workflow" }

\* number of result.get() calls of callback k
\*   generate_optimized_content: script_job.get(), content_job.get()
\*   publish_generated_content: optimization_task.get() per platform
\*   finalize_ai_workflow: generate_script_task.delay(...).get()
Gets(k) ==
    CASE k = "generate_optimized_content" -> 2
      [] k = "publish_generated_content" -> NumPlatforms
      [] OTHER -> 1

\* number of subtasks sent before the get() number p + 1 of callback k
Fanout(k, p) ==
    CASE k = "generate_optimized_content" -> NumPlatforms
      [] OTHER -> 1

JobEntry(j) == [ type |-> "job", job |-> j ]

SubEntry(j) == [ type |-> "sub", job |-> j ]

RECURSIVE Repeat(_, _)
Repeat(x, n) == IF n = 0 THEN << >> ELSE << x >> \o Repeat(x, n - 1)

SlotOf(j) == CHOOSE s \in PoolSlots : slots[s] = JobEntry(j)

\* the worker is started: the release and pool decide what get() does in a task
worker_starts(mode) ==
    /\ sync_subtasks = "unset"
    /\ sync_subtasks' = mode
    /\ UNCHANGED << pq, slots, j_kind, j_state, j_phase, j_out, j_subfail >>
    /\ UNCHANGED outsidePool

\* a chord calls its callback k: the message is sent to the queue
chord_calls(k) ==
    /\ sync_subtasks # "unset"
    /\ \E j \in Jobs :
          /\ j_kind[j] = "none"
          /\ \A i \in Jobs : i < j => j_kind[i] # "none"
          /\ j_kind' = [ j_kind EXCEPT ![j] = k ]
          /\ j_state' = [ j_state EXCEPT ![j] = "queued" ]
          /\ pq' = Append(pq, JobEntry(j))
    /\ UNCHANGED << sync_subtasks, slots, j_phase, j_out, j_subfail >>
    /\ UNCHANGED outsidePool

\* a free pool process takes the next message
pool_takes(s) ==
    /\ slots[s] = Idle
    /\ pq # << >>
    /\ slots' = [ slots EXCEPT ![s] = Head(pq) ]
    /\ pq' = Tail(pq)
    /\ j_state' = IF Head(pq).type = "job"
                    THEN [ j_state EXCEPT ![Head(pq).job] = "running" ]
                    ELSE j_state
    /\ UNCHANGED << sync_subtasks, j_kind, j_phase, j_out, j_subfail >>
    /\ UNCHANGED outsidePool

\* "if not transcript: raise ValueError(...)" in generate_optimized_content
callback_raises_early(j) ==
    /\ j_state[j] = "running"
    /\ j_kind[j] = "generate_optimized_content"
    /\ j_phase[j] = 0
    /\ j_state' = [ j_state EXCEPT ![j] = "FAILURE" ]
    /\ slots' = [ slots EXCEPT ![SlotOf(j)] = Idle ]
    /\ UNCHANGED << sync_subtasks, pq, j_kind, j_phase, j_out, j_subfail >>
    /\ UNCHANGED outsidePool

\* the callback sends its next subtasks and calls get() on their result:
\* get() blocks the pool process, or raises and the except-branch re-raises
callback_sends_and_gets(j) ==
    /\ j_state[j] = "running"
    /\ j_phase[j] < Gets(j_kind[j])
    /\ pq' = pq \o Repeat(SubEntry(j), Fanout(j_kind[j], j_phase[j]))
    /\ IF sync_subtasks = "blocks"
         THEN /\ j_state' = [ j_state EXCEPT ![j] = "waiting" ]
              /\ j_out' = [ j_out EXCEPT ![j] = Fanout(j_kind[j], j_phase[j]) ]
              /\ UNCHANGED slots
         ELSE /\ j_state' = [ j_state EXCEPT ![j] = "FAILURE" ]
              /\ slots' = [ slots EXCEPT ![SlotOf(j)] = Idle ]
              /\ UNCHANGED j_out
    /\ UNCHANGED << sync_subtasks, j_kind, j_phase, j_subfail >>
    /\ UNCHANGED outsidePool

\* a subtask returns (ok) or raises (~ok)
subtask_ends(s, ok) ==
    /\ slots[s].type = "sub"
    /\ slots' = [ slots EXCEPT ![s] = Idle ]
    /\ LET j == slots[s].job
       IN IF j_state[j] = "waiting"
            THEN /\ j_out' = [ j_out EXCEPT ![j] = @ - 1 ]
                 /\ j_subfail' = [ j_subfail EXCEPT ![j] = @ \/ ~ok ]
            ELSE UNCHANGED << j_out, j_subfail >>
    /\ UNCHANGED << sync_subtasks, pq, j_kind, j_state, j_phase >>
    /\ UNCHANGED outsidePool

\* all awaited results are stored: get() returns them or re-raises
get_returns(j) ==
    /\ j_state[j] = "waiting"
    /\ j_out[j] = 0
    /\ IF j_subfail[j]
         THEN /\ j_state' = [ j_state EXCEPT ![j] = "FAILURE" ]
              /\ slots' = [ slots EXCEPT ![SlotOf(j)] = Idle ]
              /\ UNCHANGED j_phase
         ELSE /\ j_state' = [ j_state EXCEPT ![j] = "running" ]
              /\ j_phase' = [ j_phase EXCEPT ![j] = @ + 1 ]
              /\ UNCHANGED slots
    /\ UNCHANGED << sync_subtasks, pq, j_kind, j_out, j_subfail >>
    /\ UNCHANGED outsidePool

\* the callback returns; generate_optimized_content first sends
\* publish_generated_content.delay(...), which takes the finished job's place
\* in the model
callback_returns(j) ==
    /\ j_state[j] = "running"
    /\ j_phase[j] = Gets(j_kind[j])
    /\ slots' = [ slots EXCEPT ![SlotOf(j)] = Idle ]
    /\ IF j_kind[j] = "generate_optimized_content"
         THEN /\ j_kind' = [ j_kind EXCEPT ![j] = "publish_generated_content" ]
              /\ j_state' = [ j_state EXCEPT ![j] = "queued" ]
              /\ j_phase' = [ j_phase EXCEPT ![j] = 0 ]
              /\ pq' = Append(pq, JobEntry(j))
         ELSE /\ j_state' = [ j_state EXCEPT ![j] = "SUCCESS" ]
              /\ UNCHANGED << j_kind, j_phase, pq >>
    /\ UNCHANGED << sync_subtasks, j_out, j_subfail >>
    /\ UNCHANGED outsidePool

\* finalize_ai_workflow without a transcript sends nothing and returns
finalize_without_transcript(j) ==
    /\ j_state[j] = "running"
    /\ j_kind[j] = "finalize_ai_workflow"
    /\ j_phase[j] = 0
    /\ j_state' = [ j_state EXCEPT ![j] = "SUCCESS" ]
    /\ slots' = [ slots EXCEPT ![SlotOf(j)] = Idle ]
    /\ UNCHANGED << sync_subtasks, pq, j_kind, j_phase, j_out, j_subfail >>
    /\ UNCHANGED outsidePool

\* generate_optimized_content with no script text or generate_voice off:
\* "else: content_results = []", no second group and no second get()
generate_skips_voice(j) ==
    /\ j_state[j] = "running"
    /\ j_kind[j] = "generate_optimized_content"
    /\ j_phase[j] = 1
    /\ j_phase' = [ j_phase EXCEPT ![j] = 2 ]
    /\ UNCHANGED << sync_subtasks, pq, slots, j_kind, j_state, j_out, j_subfail >>
    /\ UNCHANGED outsidePool

NextPool ==
    \/ \E j \in Jobs : generate_skips_voice(j)
    \/ \E mode \in { "blocks", "raises" } : worker_starts(mode)
    \/ \E k \in ChordCallbacks : chord_calls(k)
    \/ \E s \in PoolSlots : pool_takes(s)
    \/ \E j \in Jobs : callback_raises_early(j)
    \/ \E j \in Jobs : callback_sends_and_gets(j)
    \/ \E s \in PoolSlots, ok \in BOOLEAN : subtask_ends(s, ok)
    \/ \E j \in Jobs : get_returns(j)
    \/ \E j \in Jobs : callback_returns(j)
    \/ \E j \in Jobs : finalize_without_transcript(j)

SpecPool == Init /\ [][NextPool]_vars

(***************************************************************************)
(* bulk_video_processing_workflow: the loop over the batches, and the      *)
(* videos whose complete_video_automation_workflow the groups start        *)
(***************************************************************************)
Min(a, b) == IF a <= b THEN a ELSE b

\* "batch_urls = video_urls[i:i + batch_size]"
batch_urls(i, size) == [ k \in 1..(Min(i + size, NumUrls) - i) |-> i + k ]

InBatch(s) == { s[k] : k \in 1..Len(s) }

\* the task is started with a batch_size
bulk_starts(size) ==
    /\ b_pc = "none"
    /\ batch_size' = size
    /\ b_pc' = "loop"
    /\ UNCHANGED << b_i, batches, workflow_jobs, v_state >>
    /\ UNCHANGED outsideBulk

\* one pass of the loop: the group of the slice is sent, its id collected,
\* and the task sleeps if URLs remain
bulk_sends_batch ==
    /\ b_pc = "loop"
    /\ b_i < NumUrls
    /\ LET slice == batch_urls(b_i, batch_size)
       IN /\ batches' = Append(batches, slice)
          /\ workflow_jobs' = Append(workflow_jobs, Len(workflow_jobs) + 1)
          /\ v_state' = [ u \in Urls |-> IF u \in InBatch(slice) THEN "queued"
                                          ELSE v_state[u] ]
    /\ b_i' = b_i + batch_size
    /\ b_pc' = IF b_i + batch_size < NumUrls THEN "sleeping" ELSE "loop"
    /\ UNCHANGED batch_size
    /\ UNCHANGED outsideBulk

\* time.sleep(30) returns
sleep_ends ==
    /\ b_pc = "sleeping"
    /\ b_pc' = "loop"
    /\ UNCHANGED << batch_size, b_i, batches, workflow_jobs, v_state >>
    /\ UNCHANGED outsideBulk

\* "return workflow_jobs"
bulk_returns ==
    /\ b_pc = "loop"
    /\ b_i >= NumUrls
    /\ b_pc' = "returned"
    /\ UNCHANGED << batch_size, b_i, batches, workflow_jobs, v_state >>
    /\ UNCHANGED outsideBulk

Processing == { u \in Urls : v_state[u] = "processing" }

\* a worker starts the workflow of a queued video
video_starts(u) ==
    /\ v_state[u] = "queued"
    /\ Cardinality(Processing) < VideoCapacity
    /\ v_state' = [ v_state EXCEPT ![u] = "processing" ]
    /\ UNCHANGED << batch_size, b_pc, b_i, batches, workflow_jobs >>
    /\ UNCHANGED outsideBulk

\* the processing of a video ends
video_ends(u) ==
    /\ v_state[u] = "processing"
    /\ v_state' = [ v_state EXCEPT ![u] = "done" ]
    /\ UNCHANGED << batch_size, b_pc, b_i, batches, workflow_jobs >>
    /\ UNCHANGED outsideBulk

NextBulk ==
    \/ \E size \in 1..NumUrls : bulk_starts(size)
    \/ bulk_sends_batch
    \/ sleep_ends
    \/ bulk_returns
    \/ \E u \in Urls : video_starts(u)
    \/ \E u \in Urls : video_ends(u)

SpecBulk == Init /\ [][NextBulk]_vars

(***************************************************************************)
(* Properties                                                              *)
(***************************************************************************)
Callbacks == { "generate_optimized_content", "finalize_ai_workflow" }

Resubmissions(t) == { n \in NewIds : origOf[n] = t }

\* the state of a task as the caller of the engine sees it
Phase(t) ==
    IF t \in running THEN "Running"
    ELSE CASE status[t] = "SUCCESS" -> "Succeeded"
           [] status[t] = "FAILURE" -> "Failed"
           [] status[t] = "REVOKED" -> "Cancelled"
           [] status[t] = "RETRY" -> "Retrying"
           [] OTHER -> "Pending"

Allowed(p, q) ==
    \/ p = q
    \/ p = "Pending" /\ q \in { "Running", "Cancelled" }
    \/ p = "Running" /\ q \in { "Succeeded", "Failed", "Retrying", "Cancelled" }
    \/ p = "Retrying" /\ q \in { "Running", "Cancelled" }

\* C1: the chord callback is published exactly once, and only after every
\* member of the header is terminal: never twice, never before a member is
\* terminal, and once every member has reported its part it has been
\* published.
C1_CallbackExactlyOnce ==
    \A c \in Callbacks :
        /\ enq[c] <= 1
        /\ enq[c] >= 1 => \A m \in ai_processing_group : status[m] \in Terminal
        /\ (c = Callback(wf) /\ \A m \in ai_processing_group : chordParts[m] # "none")
              => enq[c] = 1

\* C2: in chain(download, extract_audio, chord(...)) a step is published only
\* after the step before it is SUCCESS: extract_audio only after download,
\* the members of the chord only after extract_audio.
C2_ChainOrder ==
    wf = "complete" =>
        /\ enq["extract_audio_task"] > 0 => status["download_video_task"] = "SUCCESS"
        /\ \A m \in ai_processing_group :
              enq[m] > 0 => status["extract_audio_task"] = "SUCCESS"

\* C2 witness: the chord members were published after extract_audio succeeded
C2_Witness ==
    /\ wf = "complete"
    /\ enq["transcribe_audio_task"] = 1
    /\ enq["analyze_content_sentiment_task"] = 1
    /\ status["extract_audio_task"] = "SUCCESS"
    /\ retries["download_video_task"] > 0

\* C3: once a step of the chain is FAILURE (after its last retry) or REVOKED,
\* no later step of the chain has been or will be published.
C3_ChainHalts ==
    wf = "complete" =>
        /\ status["download_video_task"] \in { "FAILURE", "REVOKED" } =>
              /\ enq["extract_audio_task"] = 0
              /\ \A m \in ai_processing_group : enq[m] = 0
              /\ enq["generate_optimized_content"] = 0
        /\ status["extract_audio_task"] \in { "FAILURE", "REVOKED" } =>
              /\ \A m \in ai_processing_group : enq[m] = 0
              /\ enq["generate_optimized_content"] = 0

\* C3 witness: download failed after its last retry and the chain stopped
C3_Witness ==
    /\ wf = "complete"
    /\ status["download_video_task"] = "FAILURE"
    /\ retries["download_video_task"] = 3
    /\ queued = {} /\ running = {}
    /\ enq["extract_audio_task"] = 0

\* C4: the number of items inside the semaphore-guarded section never exceeds
\* max_concurrent.
C4_AtMostN == Cardinality(InFlight) <= maxConcurrent

\* C4 witness: the limit is reached while another item waits for the semaphore
C4_Witness ==
    /\ maxConcurrent >= 1
    /\ Cardinality(InFlight) = maxConcurrent
    /\ \E i \in Items : itemPc[i] = "waiting"

\* C5: whatever items fail, the batch is never FAILED, and a started batch
\* ends COMPLETED with one result recorded for every item.
C5_FailureIsolation ==
    /\ [](bStatus # "failed")
    /\ (bStatus \in { "pending", "running" }) ~>
          ( /\ bStatus = "completed"
            /\ Len(results) = NumItems
            /\ { results[k].url_index : k \in 1..Len(results) } = Items )

\* C5 witness: a completed ingestion batch with failed and successful items
C5_Witness ==
    /\ svc = "ingest"
    /\ bStatus = "completed"
    /\ failed_videos >= 1
    /\ successful_videos >= 1
    /\ Len(results) = NumItems

\* C6: retries never exceed max_retries; a task with a retry handler is
\* FAILURE only with its retries used up; a task without one never retries.
C6_RetryBound ==
    \A t \in Ids :
        /\ retries[t] <= max_retries(Kind(t))
        /\ (status[t] = "FAILURE" /\ Kind(t) \in RetryingKinds)
              => retries[t] = max_retries(Kind(t))
        /\ Kind(t) \notin RetryingKinds => retries[t] = 0

\* C6 witness: tiktok_to_youtube_shorts_workflow failed after its 2 retries
C6_Witness ==
    /\ status["tiktok_to_youtube_shorts_workflow"] = "FAILURE"
    /\ retries["tiktok_to_youtube_shorts_workflow"] = 2

\* C7: a task moves only Pending -> Running -> {Succeeded, Failed, Retrying},
\* Retrying -> Running, non-terminal -> Cancelled; the terminal states are
\* absorbing.
C7_StateMachine == [][ \A t \in Ids : Allowed(Phase(t), Phase(t)') ]_vars

\* C8: a failed task id is resubmitted at most once: the second
\* retry_failed_task on it is rejected.
C8_OneResubmission == \A t \in Ids : Cardinality(Resubmissions(t)) <= 1

\* C9: retry_failed_task on a task whose status is not FAILURE returns
\* success False, sends no task and leaves the task as it was.
C9_RetryRejected ==
    [][ ( /\ calls' = calls + 1
          /\ ret'.op = "retry"
          /\ status[ret'.task] # "FAILURE" )
        => ( /\ ret'.success = FALSE
             /\ ret'.new = "none"
             /\ enq' = enq
             /\ queued' = queued
             /\ kindOf' = kindOf
             /\ status' = status
             /\ retries' = retries ) ]_vars

\* C9 witness: a retry of a succeeded task was answered with success False
C9_Witness ==
    /\ ret.op = "retry"
    /\ ret.success = FALSE
    /\ ret.task = "download_video_task"
    /\ status["download_video_task"] = "SUCCESS"

\* C10: cancel_task on a terminal task broadcasts no revoke, changes nothing
\* and returns the terminal status.
C10_CancelTerminalNoop ==
    [][ ( /\ calls' = calls + 1
          /\ ret'.op = "cancel"
          /\ status[ret'.task] \in Terminal )
        => ( /\ revokeSignal' = "none"
             /\ revoked' = revoked
             /\ status' = status
             /\ ret'.action = status[ret'.task] ) ]_vars

\* C11: an execution that fails with a permanent failure is never retried:
\* the task goes to FAILURE at once, retries and countdowns unchanged.
C11_PermanentNeverRetried ==
    [][ ( /\ rstate = "running"
          /\ Len(failures') = Len(failures) + 1
          /\ failures'[Len(failures')] = "permanent" )
        => ( /\ rstate' = "FAILURE"
             /\ request_retries' = request_retries
             /\ countdowns' = countdowns ) ]_vars

C13_ExactlyMExecutions ==
    ( /\ rstate = "FAILURE"
      /\ rtask \in RetryingKinds
      /\ \A i \in 1..Len(failures) : failures[i] = "transient" )
    => executions = max_retries(rtask)

\* C14: when one member of a chord is FAILURE and the other SUCCESS, the
\* callback is still published and is called with one entry per member.
C14_CallbackRunsWithMarkers ==
    ( /\ ChordReady(chordParts)
      /\ \E m \in ai_processing_group :
            /\ chordParts[m] = "FAILURE"
            /\ \A o \in ai_processing_group \ { m } : chordParts[o] = "SUCCESS" )
    => ( /\ enq[Callback(wf)] = 1
         /\ Len(ai_results) = Cardinality(ai_processing_group) )

Recorded == { results[k].url_index : k \in 1..Len(results) }

\* C16: successful_videos + failed_videos never exceeds the number of items,
\* and every item is counted at most once, in exactly one of the counters.
C16_CountersBounded ==
    /\ successful_videos + failed_videos <= NumItems
    /\ svc = "ingest" =>
          /\ successful_videos + failed_videos = Len(results)
          /\ Cardinality(Recorded) = Len(results)
          /\ successful_videos =
                Cardinality({ k \in 1..Len(results) : results[k].success })
          /\ failed_videos =
                Cardinality({ k \in 1..Len(results) : ~results[k].success })

\* C16 witness: every item of an ingestion batch was counted, in both counters
C16_Witness ==
    /\ svc = "ingest"
    /\ successful_videos + failed_videos = NumItems
    /\ successful_videos >= 1
    /\ failed_videos >= 1

\* C17: a batch is COMPLETED, FAILED or CANCELLED only if every item has its
\* result recorded or the batch task was cancelled; a batch that was not
\* cancelled is never terminal while an item is waiting or in flight.
C17_TerminalOnlyWhenDone ==
    bStatus \in { "completed", "failed", "cancelled" } =>
        \/ /\ Recorded = Items
           /\ \A i \in Items : itemPc[i] = "done"
        \/ /\ bStatus = "cancelled"
           /\ cancelled_by # "none"

\* C17 witness: a completed ingestion batch whose last item had to wait
C17_Witness ==
    /\ svc = "ingest"
    /\ bStatus = "completed"
    /\ maxConcurrent < NumItems
    /\ Recorded = Items
    /\ cancelled_by = "none"

\* C18: a batch is CANCELLED only after a cancel; once it was cancelled no
\* waiting item starts, and the cancel lets the items in flight finish.
C18_CancelStopsScheduling ==
    [][ /\ bStatus' = "cancelled" => cancelled_by' # "none"
        /\ cancelled_by # "none" =>
              \A i \in Items : itemPc[i] = "waiting" => itemPc'[i] # "inflight"
        /\ cancelled_by' # "none" =>
              \A i \in Items :
                  itemPc[i] = "inflight" => itemPc'[i] \in { "inflight", "done" }
      ]_vars

\* C19: the progress of a batch never decreases.
C19_ProgressMonotonic == [][ progress' >= progress ]_vars

\* C19 witness: two of three items were processed, the second to finish first
C19_Witness ==
    /\ svc = "ingest"
    /\ Len(results) = 2
    /\ results[1].url_index = 2
    /\ progress = Percent(2, NumItems)
    /\ progress > 0 /\ progress < 100

\* the steps and members a submitted workflow consists of
StepsOf(w) == TasksOf(w) \ { Root(w) }

\* C20: the progress get_workflow_status reports is 100 * completed steps /
\* steps of the workflow, and the progress of a batch is 100 * recorded items /
\* items; it is 100 exactly when every step is completed.
C20_ProgressIsRatio ==
    /\ svc = "ingest" => progress = (Len(results) * 100) \div NumItems
    /\ wf \in { "complete", "ai" } =>
          LET done == { t \in StepsOf(wf) : status[t] = "SUCCESS" }
              reported == get_workflow_status(Root(wf)).progress
          IN  /\ reported = (Cardinality(done) * 100) \div Cardinality(StepsOf(wf))
              /\ reported \in 0..100
              /\ reported = 100 <=> done = StepsOf(wf)

\* C21: the i-th recorded result of BatchJob.results is the outcome of the i-th
\* input URL, at every time and for every completion order.
C21_ResultsAligned ==
    svc = "ingest" => \A k \in 1..Len(results) : results[k].url_index = k

\* the items whose processing succeeded / failed
Succeeded == { i \in Items : itemOut[i] = "success" }

Failed == { i \in Items : itemOut[i] = "failure" }

\* C22: in a COMPLETED batch successful_videos is the number of items whose
\* processing succeeded, failed_videos the number whose processing failed,
\* their sum is the number of items and one result is recorded per item; the
\* summary of batch_transcribe_task counts its results the same way.
C22_FinalCounts ==
    bStatus = "completed" =>
        /\ Len(results) = NumItems
        /\ Recorded = Items
        /\ \A k \in 1..Len(results) :
              results[k].success <=> results[k].url_index \in Succeeded
        /\ Succeeded \cup Failed = Items
        /\ svc = "ingest" =>
              /\ successful_videos = Cardinality(Succeeded)
              /\ failed_videos = Cardinality(Failed)
              /\ successful_videos + failed_videos = NumItems

\* C22 witness: items 1 and 3 succeeded and item 2 failed under a concurrency
\* limit of 2, and the batch is COMPLETED with the counters 2 and 1
C22_Witness ==
    /\ svc = "ingest"
    /\ bStatus = "completed"
    /\ maxConcurrent = 2
    /\ itemOut[1] = "success" /\ itemOut[2] = "failure" /\ itemOut[3] = "success"
    /\ successful_videos = Cardinality(Succeeded)
    /\ failed_videos = 1

\* C23: for a task that completed successfully, whatever it returned,
\* get_task_status returns a snapshot whose "status" is SUCCESS and whose
\* "task_id" is the queried id.
C23_SuccessSnapshot ==
    (snapshot.op = "get_task_status" /\ m_state[snapshot.asked] = "SUCCESS") =>
        /\ snapshot.info.status = "SUCCESS"
        /\ snapshot.info.task_id = snapshot.asked

\* a message a worker could execute now
Deliverable(o) == d_loc[o] \in { "broker", "timer", "ready" } /\ d_eta[o] <= d_now

\* m comes before o by (eta ascending, enqueue order ascending); the priorities
\* are equal
Before(m, o) ==
    \/ d_eta[m] < d_eta[o]
    \/ d_eta[m] = d_eta[o] /\ d_seq[m] <= d_seq[o]

\* C24: a message with a future eta is not handed to a worker before the eta
\* has passed, and the message a worker starts is the first of the deliverable
\* ones by earlier eta, then higher priority, then earlier enqueue.
C24_EtaRespectedAndOrdered ==
    [][ /\ \A m \in Msgs :
             (d_loc[m] = "broker" /\ d_loc'[m] \in { "timer", "ready" })
                => d_eta[m] <= d_now
        /\ \A m \in Msgs :
             (d_loc[m] # "executing" /\ d_loc'[m] = "executing")
                => \A o \in Msgs \ { m } : Deliverable(o) => Before(m, o)
      ]_vars

\* the messages of the queue, as a set
InBroker == { bq[i] : i \in 1..Len(bq) }

C28_LossesNotCounted ==
    \A m \in Msgs :
        /\ d_state[m] # "FAILURE" => d_retries[m] = d_raises[m]
        /\ d_state[m] = "FAILURE" =>
              /\ d_retries[m] = max_retries(task_of(m))
              /\ d_raises[m] = max_retries(task_of(m)) + 1

\* C28 witness: a message lost with its worker as often as the run allows has
\* used no retry and is in the queue again
C28_Witness ==
    \E m \in Msgs :
        /\ d_losses[m] = MaxFaults
        /\ d_retries[m] = 0
        /\ d_state[m] = "PENDING"
        /\ d_loc[m] = "broker"

RECURSIVE Concat(_)
Concat(ss) == IF ss = << >> THEN << >> ELSE Head(ss) \o Concat(Tail(ss))

\* the batches are consecutive slices of at most batch_size URLs in input
\* order, every URL in one batch, one distinct group id per batch
SlicesInOrder ==
    /\ Len(workflow_jobs) = Len(batches)
    /\ \A m, n \in 1..Len(workflow_jobs) : m # n => workflow_jobs[m] # workflow_jobs[n]
    /\ \A k \in 1..Len(batches) : Len(batches[k]) \in 1..batch_size
    /\ \A k \in 1..(Len(batches) - 1) : Len(batches[k]) = batch_size
    /\ Concat(batches) = [ k \in 1..Min(b_i, NumUrls) |-> k ]
    /\ b_pc = "returned" => Len(Concat(batches)) = NumUrls

\* C26: with batch_size = B every URL is sent in exactly one batch, the batches
\* are consecutive slices of at most B URLs in input order with one group id
\* each, and never more than B videos of the job are processed at a time.
C26_BulkBatches ==
    b_pc # "none" =>
        /\ SlicesInOrder
        /\ Cardinality(Processing) <= batch_size

\* C27: no pool process is held by a task that waits for the result of a task
\* it has sent; a pool process waits only for its next message or for an
\* external operation.
C27_NoSlotHeldWhileWaiting ==
    \A s \in PoolSlots :
        slots[s].type = "job" => j_state[slots[s].job] # "waiting"

\* C29: no state has every pool process held by a callback that waits for
\* subtasks which are still in the queue, so every started callback can end.
C29_NoPoolDeadlock ==
    ~ \A s \in PoolSlots :
          /\ slots[s].type = "job"
          /\ j_state[slots[s].job] = "waiting"
          /\ j_out[slots[s].job] > 0

\* C30: every call of start_batch_ingestion returns an id no registered batch
\* has, so no registration replaces another batch's record and every started
\* batch is retrievable under the id its call returned.
C30_JobIdsUnique ==
    /\ \A m, n \in 1..Len(started) : m # n => started[m] # started[n]
    /\ \A n \in 1..Len(started) : get_batch_status(started[n]) = n

====
